---- MODULE Spec2Model ----
(***************************************************************************)
(* Swarm bootstrap orchestration of pulumi-swarm-deployment.               *)
(*                                                                         *)
(* The model follows SwarmCluster.__init__ of                              *)
(* src/swarm_deployment_gcp/swarm.py statement by statement: creation of   *)
(* the initial (manager) instance, the bounded readiness loop around       *)
(* _check_manager_running, creation of the instance template, and the      *)
(* worker fan-out.  The startup scripts the code embeds in the instance    *)
(* and in the template run remotely and asynchronously; they are modelled  *)
(* as separate processes that share the secret holding the join token.     *)
(* Around it: SwarmDeploymentGCP.__init__, which hands the arguments to    *)
(* SwarmNetwork, optionally adds the deployer key, runs SwarmCluster and   *)
(* exports the nodes; the rendering of the two startup scripts; and the    *)
(* historical revisions of the orchestration, src/swarm.py and             *)
(* src/__main__.py.                                                        *)
(***************************************************************************)
EXTENDS Integers, Sequences, FiniteSets, TLC

\* ------------------------------------------------------------------ bounds

\* Largest instance_count explored (1 manager + MaxCount-1 workers).
MaxCount == 4

\* Retry budget of the readiness loop: `while retry < 30 and ...`.
MaxAttempts == 30

\* Regions explored for the `region` argument.
Regions == {"europe-west2", "us-east1"}

\* Values explored for `name` and `docker_token_secret_name`.
Names == {"app", "shop"}
SecretNames == {"swarm-token", "join-token"}

\* Private addresses the provider may give the manager.
Addresses == {"10.0.0.2", "10.0.1.7"}

\* Python's None, where an address is absent.
NoneValue == "<None>"

\* Values explored for `ssh_pub_keys`.
KeySets == { <<>>,
             ("alice" :> "ssh-rsa A"),
             ("alice" :> "ssh-rsa A") @@ ("deployer" :> "ssh-rsa OLD") }

\* The historical revisions count no attempts; the model's count of their
\* probes and sleeps stops at this value.
HistProbeCap == 32

\* ------------------------------------------------------------------ state

VARIABLES
    instance_count,                     \* argument instance_count
    region,                             \* argument region
    docker_token_secret_user_managed,   \* argument docker_token_secret_user_managed
    pc,             \* position of SwarmCluster.__init__
    retry,          \* local `retry` of the readiness loop
    probes,         \* calls of _check_manager_running so far
    sleeps,         \* calls of time.sleep(10) so far
    readyConfirmed, \* some call of _check_manager_running returned True
    requests,       \* creation requests issued, in order
    created,        \* requests that succeeded (resources that exist)
    swarm_nodes,    \* self.swarm_nodes (<<>> before line 352)
    i,              \* loop variable of the fan-out
    mgr,            \* position of the manager's startup script
    GCLOUD_COMMAND, \* shell variable of the manager's startup script
    describe_rc,    \* exit status of `gcloud secrets describe` (-1: not run)
    secretExists,   \* the secret docker_token_secret_name exists
    secretLatest,   \* latest version of the secret: "none", "stale", "token"
    secretWrites,   \* writes to the secret made by startup scripts
    wk,             \* position of each worker's startup script
    wkToken,        \* what each worker's `versions access latest` returned
    publish_rc,     \* exit status of the script's publish line (-1: not run)
    revision,       \* "package", or historical "swarm" / "main"
    name,                       \* argument name
    docker_token_secret_name,   \* argument docker_token_secret_name
    ssh_pub_keys,               \* argument ssh_pub_keys (a dict)
    generate_ssh_key,           \* argument generate_ssh_key
    network_ip,     \* address the provider gives the manager instance
    network_args,   \* <<arguments as SwarmNetwork received them>>, or <<>>
    dpc,            \* position of SwarmDeploymentGCP.__init__
    exports,        \* pulumi.export: i |-> value of "instance-{i}-name"
    raised,         \* exception raised by the orchestration code itself
    initial_instance_private_ip,  \* self.initial_instance_private_ip
    manager_script, \* <<metadata_startup_script of the manager>>, or <<>>
    template_script \* <<metadata_startup_script of the template>>, or <<>>

cfgVars    == <<instance_count, region, docker_token_secret_user_managed,
                revision, name, docker_token_secret_name, ssh_pub_keys,
                generate_ssh_key, network_ip>>
deployVars == <<network_args, dpc, exports, raised>>
renderVars == <<initial_instance_private_ip, manager_script, template_script>>
orchVars   == <<pc, retry, probes, sleeps, readyConfirmed, requests, created,
                swarm_nodes, i>>
mgrVars    == <<mgr, GCLOUD_COMMAND, describe_rc, publish_rc>>
secretVars == <<secretExists, secretLatest, secretWrites>>
wkVars     == <<wk, wkToken>>
vars       == <<cfgVars, deployVars, renderVars, orchVars, mgrVars,
                secretVars, wkVars>>

WorkerIds == 1 .. (MaxCount - 1)

\* ---------------------------------------------------------------- helpers

\* zones = ["a", "b", "c"]
zones == <<"a", "b", "c">>

\* Python list indexing zones[k] (0-based); "IndexError" when out of range.
ZoneAt(k) == IF k >= 0 /\ k < Len(zones) THEN zones[k + 1] ELSE "IndexError"

\* f"{region}-{z}"
ZoneName(r, z) == <<r, "-", z>>

\* zone=f"{region}-a" of the initial instance
ManagerZone(r) == ZoneName(r, "a")

WorkerZoneWrong(r, k) == ZoneName(r, ZoneAt((k - 1) % Len(zones)))
\* zone=f"{region}-{zones[i % len(zones)]}" of worker i
WorkerZone(r, k) == ZoneName(r, ZoneAt(k % Len(zones)))

LoopGuardWrong(r) == r <= MaxAttempts
\* `retry < 30`, the first conjunct of the while condition
LoopGuard(r) == r < MaxAttempts

ResourceNameWrong(kind, index) ==
    IF kind = "Template" THEN <<name, "-swarm-node-template">>
    ELSE <<name, "-swarm-node">>
\* Resource names: f"{name}-swarm-node-0", f"{name}-swarm-node-template",
\* f"{name}-swarm-node-{i}"
ResourceName(kind, index) ==
    IF kind = "Template" THEN <<name, "-swarm-node-template">>
    ELSE <<name, "-swarm-node-", index>>

\* A creation request: the resource's kind, its index among the nodes, its
\* zone (region, for the template) and the name it is created under.
Request(kind, index, zone) ==
    [kind |-> kind, index |-> index, zone |-> zone,
     name |-> ResourceName(kind, index)]

\* secret_location = "--replication-policy=user-managed --locations={region}"
\*                   if docker_token_secret_user_managed else ""
secret_location(um, r) == IF um THEN <<"user-managed", r>> ELSE <<>>

\* f"{private_ip}" : str() of the value, "None" for None
Str(v) == IF v = NoneValue THEN "None" ELSE v

\* ssh_pub_keys.keys(), the users of add_docker_users
Users(keys) == DOMAIN keys

\* startup_script.format(swarm_setup=..., add_docker_users=...) of the
\* manager: the secret it probes, the options of `gcloud secrets create`,
\* the secret $GCLOUD_COMMAND publishes the token to, the users.
ManagerScript(secret, location, users) ==
    [describe |-> secret, create_options |-> location, publish |-> secret,
     users |-> users]

WorkerScriptWrong(secret, private_ip, users) ==
    [access |-> <<"latest", secret>>, join |-> <<Str(private_ip), 2376>>,
     users |-> users]
\* lambda private_ip: startup_script.format(swarm_setup=..., ...) of the
\* template: the secret version it reads the token from, the address and
\* port it joins, the users.  No argument is checked.
WorkerScript(secret, private_ip, users) ==
    [access |-> <<"latest", secret>>, join |-> <<Str(private_ip), 2377>>,
     users |-> users]

\* args.ssh_pub_keys['deployer'] = key
SetKey(keys, user, key) ==
    [u \in (DOMAIN keys) \cup {user} |-> IF u = user THEN key ELSE keys[u]]

\* The arguments a component is given: **vars(args)
CurrentArgs ==
    [name |-> name, region |-> region, instance_count |-> instance_count,
     docker_token_secret_name |-> docker_token_secret_name,
     ssh_pub_keys |-> ssh_pub_keys]

\* ------------------------------------------------------------------- Init

\* Nothing requested, no script running, nothing rendered or exported.
ClusterStart ==
    /\ retry = 0
    /\ probes = 0
    /\ sleeps = 0
    /\ readyConfirmed = FALSE
    /\ requests = <<>>
    /\ created = {}
    /\ swarm_nodes = <<>>
    /\ i = 0
    /\ mgr = "off"
    /\ GCLOUD_COMMAND = "unset"
    /\ describe_rc = -1
    /\ publish_rc = -1
    /\ secretWrites = <<>>
    /\ wk = [w \in WorkerIds |-> "off"]
    /\ wkToken = [w \in WorkerIds |-> "unread"]
    /\ exports = <<>>
    /\ raised = "none"
    /\ manager_script = <<>>
    /\ template_script = <<>>

\* The secret may pre-exist (with no version, or with the token of an
\* earlier deployment) or be absent.
SecretStart ==
    /\ secretExists \in BOOLEAN
    /\ secretLatest \in (IF secretExists THEN {"none", "stale"} ELSE {"none"})

\* State on entry of SwarmCluster.__init__ of the package, for one
\* deployment name, secret name, key set and manager address.
Init ==
    /\ instance_count \in 1 .. MaxCount
    /\ region \in Regions
    /\ docker_token_secret_user_managed \in BOOLEAN
    /\ revision = "package"
    /\ name = "app"
    /\ docker_token_secret_name = "swarm-token"
    /\ ssh_pub_keys = ("alice" :> "ssh-rsa A")
    /\ generate_ssh_key = FALSE
    /\ network_ip = "10.0.0.2"
    /\ network_args = <<CurrentArgs>>
    /\ dpc = "cluster"
    /\ pc = "ManagerProvisioning"
    /\ initial_instance_private_ip = NoneValue
    /\ ClusterStart
    /\ SecretStart

\* ----------------------------------------------------------- orchestrator

\* A creation call that raises: the exception leaves __init__ (there is no
\* try/except), nothing created so far is undone.
AbortWrong(req) ==
    /\ requests' = Append(requests, req)
    /\ UNCHANGED <<pc, created>>
Abort(req) ==
    /\ requests' = Append(requests, req)
    /\ pc' = "Failed"
    /\ UNCHANGED created

\* initial_instance = gcp.compute.Instance(f"{name}-swarm-node-0", ...);
\* the instance boots and starts its metadata_startup_script.
CreateManager ==
    /\ pc = "ManagerProvisioning"
    /\ LET req == Request("Manager", 0, ManagerZone(region)) IN
       \/ /\ requests' = Append(requests, req)
          /\ created' = created \cup {req}
          /\ pc' = "AwaitingManagerReady"
          /\ mgr' = "install"
          /\ initial_instance_private_ip' = network_ip
          /\ UNCHANGED <<GCLOUD_COMMAND, describe_rc, publish_rc>>
       \/ /\ Abort(req)
          /\ UNCHANGED <<mgrVars, initial_instance_private_ip>>
    /\ manager_script' =
          <<ManagerScript(docker_token_secret_name,
                          secret_location(docker_token_secret_user_managed,
                                          region),
                          Users(ssh_pub_keys))>>
    /\ UNCHANGED <<cfgVars, deployVars, template_script, retry, probes,
                   sleeps, readyConfirmed, swarm_nodes, i, secretVars, wkVars>>

CheckManagerRunningWrong ==
    /\ pc = "AwaitingManagerReady"
    /\ LoopGuard(retry)
    /\ probes' = probes + 1
    /\ \E up \in BOOLEAN :
          /\ readyConfirmed' = (readyConfirmed \/ up)
          /\ pc' = "Sleeping"
    /\ UNCHANGED <<cfgVars, deployVars, renderVars,
                   retry, sleeps, requests, created, swarm_nodes, i,
                   mgrVars, secretVars, wkVars>>
\* `while retry < 30 and not self._check_manager_running()` with retry < 30:
\* one connect to port 22 of the manager; True leaves the loop, False enters
\* the loop body.  The probe is taken by the result its docstring states
\* ("True if the SSH port is open and reachable; otherwise False"); whether
\* the port is open is the environment's choice at every attempt.
CheckManagerRunning ==
    /\ pc = "AwaitingManagerReady"
    /\ LoopGuard(retry)
    /\ probes' = probes + 1
    /\ \E up \in BOOLEAN :
          /\ readyConfirmed' = (readyConfirmed \/ up)
          /\ pc' = IF up THEN "TemplateProvisioning" ELSE "Sleeping"
    /\ UNCHANGED <<cfgVars, deployVars, renderVars,
                   retry, sleeps, requests, created, swarm_nodes, i,
                   mgrVars, secretVars, wkVars>>

\* The while condition with retry = 30: `and` short-circuits, no probe is
\* made, control falls through to the log line and the template.
RetriesExhausted ==
    /\ pc = "AwaitingManagerReady"
    /\ ~LoopGuard(retry)
    /\ pc' = "TemplateProvisioning"
    /\ UNCHANGED <<cfgVars, deployVars, renderVars,
                   retry, probes, sleeps, readyConfirmed, requests,
                   created, swarm_nodes, i, mgrVars, secretVars, wkVars>>

SleepNeverReturns ==
    /\ pc = "Sleeping"
    /\ UNCHANGED vars
\* Loop body: time.sleep(10); retry += 1
Sleep ==
    /\ pc = "Sleeping"
    /\ sleeps' = sleeps + 1
    /\ retry' = retry + 1
    /\ pc' = "AwaitingManagerReady"
    /\ UNCHANGED <<cfgVars, deployVars, renderVars,
                   probes, readyConfirmed, requests, created,
                   swarm_nodes, i, mgrVars, secretVars, wkVars>>

CreateTemplateWrong ==
    /\ pc = "TemplateProvisioning"
    /\ swarm_nodes' = <<0>>
    /\ i' = 1
    /\ pc' = "WorkersProvisioning"
    /\ UNCHANGED <<cfgVars, deployVars, renderVars,
                   retry, probes, sleeps, readyConfirmed, requests,
                   created, mgrVars, secretVars, wkVars>>
\* instance_template = gcp.compute.InstanceTemplate(...);
\* self.swarm_nodes = [initial_instance]; the fan-out starts at i = 1.
CreateTemplate ==
    /\ pc = "TemplateProvisioning"
    /\ LET req == Request("Template", 0, <<region>>) IN
       \/ /\ requests' = Append(requests, req)
          /\ created' = created \cup {req}
          /\ swarm_nodes' = <<0>>
          /\ i' = 1
          /\ pc' = "WorkersProvisioning"
       \/ /\ Abort(req)
          /\ UNCHANGED <<swarm_nodes, i>>
    /\ template_script' =
          <<WorkerScript(docker_token_secret_name,
                         initial_instance_private_ip, Users(ssh_pub_keys))>>
    /\ UNCHANGED <<cfgVars, deployVars, initial_instance_private_ip,
                   manager_script, retry, probes, sleeps, readyConfirmed,
                   mgrVars, secretVars, wkVars>>

CreateWorkerWrong ==
    /\ pc = "WorkersProvisioning"
    /\ i < instance_count
    /\ LET tpl == Request("Template", 0, <<region>>)
           req == Request("Worker", i, WorkerZone(region, i)) IN
       \/ /\ requests' = requests \o <<tpl, req>>
          /\ created' = created \cup {tpl, req}
          /\ swarm_nodes' = Append(swarm_nodes, i)
          /\ i' = i + 1
          /\ wk' = [wk EXCEPT ![i] = "install"]
          /\ UNCHANGED <<pc, wkToken>>
       \/ /\ Abort(req)
          /\ UNCHANGED <<swarm_nodes, i, wkVars>>
    /\ UNCHANGED <<cfgVars, deployVars, renderVars,
                   retry, probes, sleeps, readyConfirmed, mgrVars,
                   secretVars>>
CreateWorkerPrepend ==
    /\ pc = "WorkersProvisioning"
    /\ i < instance_count
    /\ LET req == Request("Worker", i, WorkerZone(region, i)) IN
       \/ /\ requests' = Append(requests, req)
          /\ created' = created \cup {req}
          /\ swarm_nodes' = <<i>> \o swarm_nodes
          /\ i' = i + 1
          /\ wk' = [wk EXCEPT ![i] = "install"]
          /\ UNCHANGED <<pc, wkToken>>
       \/ /\ Abort(req)
          /\ UNCHANGED <<swarm_nodes, i, wkVars>>
    /\ UNCHANGED <<cfgVars, deployVars, renderVars, retry, probes, sleeps,
                   readyConfirmed, mgrVars, secretVars>>
\* One iteration of `for i in range(1, instance_count)`:
\* swarm_node = gcp.compute.InstanceFromTemplate(f"{name}-swarm-node-{i}", ...);
\* self.swarm_nodes.append(swarm_node).  The worker boots and starts the
\* template's startup script.
CreateWorker ==
    /\ pc = "WorkersProvisioning"
    /\ i < instance_count
    /\ LET req == Request("Worker", i, WorkerZone(region, i)) IN
       \/ /\ requests' = Append(requests, req)
          /\ created' = created \cup {req}
          /\ swarm_nodes' = Append(swarm_nodes, i)
          /\ i' = i + 1
          /\ wk' = [wk EXCEPT ![i] = "install"]
          /\ UNCHANGED <<pc, wkToken>>
       \/ /\ Abort(req)
          /\ UNCHANGED <<swarm_nodes, i, wkVars>>
    /\ UNCHANGED <<cfgVars, deployVars, renderVars,
                   retry, probes, sleeps, readyConfirmed, mgrVars,
                   secretVars>>

\* range(1, instance_count) exhausted: self.register_outputs({...}).
RegisterOutputs ==
    /\ pc = "WorkersProvisioning"
    /\ i >= instance_count
    /\ pc' = "Complete"
    /\ UNCHANGED <<cfgVars, deployVars, renderVars,
                   retry, probes, sleeps, readyConfirmed, requests,
                   created, swarm_nodes, i, mgrVars, secretVars, wkVars>>

\* ------------------------------------------------- manager startup script

\* apt-get update && apt-get -y install docker.io; sysctl;
\* GCLOUD_COMMAND="gcloud secrets versions add"
MgrInstall ==
    /\ mgr = "install"
    /\ GCLOUD_COMMAND' = "add"
    /\ mgr' = "describe"
    /\ UNCHANGED <<cfgVars, deployVars, renderVars, orchVars, describe_rc,
                   publish_rc, secretVars, wkVars>>

MgrDescribeWrong ==
    /\ mgr = "describe"
    /\ describe_rc' = IF secretExists THEN 0 ELSE 1
    /\ GCLOUD_COMMAND' =
          IF describe_rc' # 0 /\ ~docker_token_secret_user_managed
          THEN "create" ELSE GCLOUD_COMMAND
    /\ mgr' = "init"
    /\ UNCHANGED <<cfgVars, deployVars, renderVars, orchVars, publish_rc,
                   secretVars, wkVars>>
\* gcloud secrets describe {name}; if [ $? -ne 0 ]; then
\*   GCLOUD_COMMAND="gcloud secrets create {secret_location}"; fi
MgrDescribe ==
    /\ mgr = "describe"
    /\ describe_rc' = IF secretExists THEN 0 ELSE 1
    /\ GCLOUD_COMMAND' = IF describe_rc' # 0 THEN "create" ELSE GCLOUD_COMMAND
    /\ mgr' = "init"
    /\ UNCHANGED <<cfgVars, deployVars, renderVars, orchVars, publish_rc,
                   secretVars, wkVars>>

MgrInitAndPublishWrong ==
    /\ mgr = "init"
    /\ mgr' = "done"
    /\ \E initOk \in BOOLEAN :
          IF initOk
          THEN /\ secretExists' = TRUE
               /\ secretLatest' = "token"
               /\ publish_rc' = 0
               /\ secretWrites' = secretWrites \o
                     (IF GCLOUD_COMMAND = "create"
                      THEN <<[by |-> "manager", cmd |-> "create",
                              location |-> secret_location(
                                  docker_token_secret_user_managed, region)],
                             [by |-> "manager", cmd |-> "add",
                              location |-> <<>>]>>
                      ELSE <<[by |-> "manager", cmd |-> "add",
                              location |-> <<>>]>>)
          ELSE /\ publish_rc' = 1
               /\ UNCHANGED secretVars
    /\ UNCHANGED <<cfgVars, deployVars, renderVars, orchVars, GCLOUD_COMMAND,
                   describe_rc, wkVars>>
\* docker swarm init ... && docker swarm join-token manager -q
\*    | $GCLOUD_COMMAND {name} --data-file=-
\* One command writes the token: `create` makes the secret with the token as
\* its data, `versions add` adds a version.  When swarm init (or the gcloud
\* command) fails, nothing is written and the line's status is not 0.
MgrInitAndPublish ==
    /\ mgr = "init"
    /\ mgr' = "done"
    /\ \E initOk \in BOOLEAN :
          IF initOk
          THEN /\ secretExists' = TRUE
               /\ secretLatest' = "token"
               /\ publish_rc' = 0
               /\ secretWrites' = Append(secretWrites,
                     [by |-> "manager", cmd |-> GCLOUD_COMMAND,
                      location |-> IF GCLOUD_COMMAND = "create"
                                   THEN secret_location(
                                          docker_token_secret_user_managed,
                                          region)
                                   ELSE <<>>])
          ELSE /\ publish_rc' = 1
               /\ UNCHANGED secretVars
    /\ UNCHANGED <<cfgVars, deployVars, renderVars, orchVars, GCLOUD_COMMAND,
                   describe_rc, wkVars>>

\* -------------------------------------------------- worker startup script

\* apt update && apt -y install docker.io && sysctl ... &&  : the chain
\* either reaches the join or stops at a failing command.
WorkerInstall(w) ==
    /\ wk[w] = "install"
    /\ \E ok \in BOOLEAN :
          wk' = [wk EXCEPT ![w] = IF ok THEN "join" ELSE "aborted"]
    /\ UNCHANGED <<cfgVars, deployVars, renderVars,
                   orchVars, mgrVars, secretVars, wkToken>>

\* docker swarm join --token $(gcloud secrets versions access latest
\*    --secret={name}) {private_ip}:2377
WorkerJoin(w) ==
    /\ wk[w] = "join"
    /\ wkToken' = [wkToken EXCEPT ![w] = secretLatest]
    /\ wk' = [wk EXCEPT ![w] = "done"]
    /\ UNCHANGED <<cfgVars, deployVars, renderVars,
                   orchVars, mgrVars, secretVars>>

\* ------------------------------------------------------------------- Next

Next ==
    \/ CreateManager
    \/ CheckManagerRunning
    \/ RetriesExhausted
    \/ Sleep
    \/ CreateTemplate
    \/ CreateWorker
    \/ RegisterOutputs
    \/ MgrInstall
    \/ MgrDescribe
    \/ MgrInitAndPublish
    \/ \E w \in WorkerIds : WorkerInstall(w)
    \/ \E w \in WorkerIds : WorkerJoin(w)

Spec == Init /\ [][Next]_vars

\* --------------------------------------- the orchestration alone, fair

\* The steps of SwarmCluster.__init__: one thread of control, which runs
\* each statement it reaches.
OrchNext ==
    \/ CreateManager
    \/ CheckManagerRunning
    \/ RetriesExhausted
    \/ Sleep
    \/ CreateTemplate
    \/ CreateWorker
    \/ RegisterOutputs

SpecOrch == Init /\ [][OrchNext]_vars /\ WF_vars(OrchNext)

\* ------------------------------------------------- SwarmDeploymentGCP

\* The key _create_deployer_ssh_keypair returns.
DeployerKey == "ssh-rsa NEW deployer"

\* self.args = args; self.swarm_network = SwarmNetwork(..., **vars(args))
DeployNetwork ==
    /\ dpc = "network"
    /\ network_args' = <<CurrentArgs>>
    /\ dpc' = IF generate_ssh_key THEN "keygen" ELSE "cluster_call"
    /\ UNCHANGED <<cfgVars, exports, raised, renderVars, orchVars, mgrVars,
                   secretVars, wkVars>>

DeployGenerateKeyWrong ==
    /\ dpc = "keygen"
    /\ ssh_pub_keys' = ("deployer" :> DeployerKey)
    /\ dpc' = "cluster_call"
    /\ UNCHANGED <<instance_count, region, docker_token_secret_user_managed,
                   revision, name, docker_token_secret_name, generate_ssh_key,
                   network_ip, network_args, exports, raised, renderVars,
                   orchVars, mgrVars, secretVars, wkVars>>
\* if args.generate_ssh_key:
\*     self.deployer_ssh_key_public = self._create_deployer_ssh_keypair()
\*     args.ssh_pub_keys['deployer'] = self.deployer_ssh_key_public
DeployGenerateKey ==
    /\ dpc = "keygen"
    /\ ssh_pub_keys' = SetKey(ssh_pub_keys, "deployer", DeployerKey)
    /\ dpc' = "cluster_call"
    /\ UNCHANGED <<instance_count, region, docker_token_secret_user_managed,
                   revision, name, docker_token_secret_name, generate_ssh_key,
                   network_ip, network_args, exports, raised, renderVars,
                   orchVars, mgrVars, secretVars, wkVars>>

\* self.swarm_cluster = SwarmCluster(subnet_id=..., **vars(args)): the
\* constructor is entered (lines 288-298).
DeployEnterCluster ==
    /\ dpc = "cluster_call"
    /\ pc = "NotEntered"
    /\ dpc' = "cluster"
    /\ pc' = "ManagerProvisioning"
    /\ UNCHANGED <<cfgVars, network_args, exports, raised, renderVars, retry,
                   probes, sleeps, readyConfirmed, requests, created,
                   swarm_nodes, i, mgrVars, secretVars, wkVars>>

\* instance.name of the node handle h held in swarm_nodes
NodeName(h) ==
    (CHOOSE q \in created : q.kind # "Template" /\ q.index = h).name

\* for i, instance in enumerate(self.swarm_cluster.swarm_nodes):
\*     pulumi.export(f"instance-{i}-name", instance.name) ...
\* self.register_outputs({...})
DeployExport ==
    /\ dpc = "cluster"
    /\ pc = "Complete"
    /\ exports' = [j \in 0 .. (Len(swarm_nodes) - 1) |->
                      NodeName(swarm_nodes[j + 1])]
    /\ dpc' = "done"
    /\ UNCHANGED <<cfgVars, network_args, raised, renderVars, orchVars,
                   mgrVars, secretVars, wkVars>>

\* State on entry of SwarmDeploymentGCP.__init__.
InitDeploy ==
    /\ instance_count \in 1 .. MaxCount
    /\ region \in Regions
    /\ docker_token_secret_user_managed \in BOOLEAN
    /\ revision = "package"
    /\ name \in Names
    /\ docker_token_secret_name \in SecretNames
    /\ ssh_pub_keys \in KeySets
    /\ generate_ssh_key \in BOOLEAN
    /\ network_ip \in Addresses
    /\ network_args = <<>>
    /\ dpc = "network"
    /\ pc = "NotEntered"
    /\ initial_instance_private_ip = NoneValue
    /\ ClusterStart
    /\ secretExists = FALSE
    /\ secretLatest = "none"

NextDeploy ==
    \/ DeployNetwork
    \/ DeployGenerateKey
    \/ DeployEnterCluster
    \/ OrchNext
    \/ DeployExport

SpecDeploy == InitDeploy /\ [][NextDeploy]_vars

\* ------------------------------------------- rendering of the scripts

\* Arguments the template's lambda can be applied to: an address, the empty
\* string, None.
AddressInputs == Addresses \cup {"", NoneValue}

\* metadata_startup_script=startup_script.format(swarm_setup=f"...", ...)
\* of the initial instance, on its own.
RenderManagerScript ==
    /\ manager_script = <<>>
    /\ manager_script' =
          <<ManagerScript(docker_token_secret_name,
                          secret_location(docker_token_secret_user_managed,
                                          region),
                          Users(ssh_pub_keys))>>
    /\ UNCHANGED <<cfgVars, deployVars, initial_instance_private_ip,
                   template_script, orchVars, mgrVars, secretVars, wkVars>>

\* The lambda of the template's metadata_startup_script applied to
\* private_ip, on its own.
RenderWorkerScript ==
    /\ template_script = <<>>
    /\ template_script' =
          <<WorkerScript(docker_token_secret_name,
                         initial_instance_private_ip, Users(ssh_pub_keys))>>
    /\ UNCHANGED <<cfgVars, deployVars, initial_instance_private_ip,
                   manager_script, orchVars, mgrVars, secretVars, wkVars>>

\* The inputs of the two renderings, drawn freely; private_ip is the
\* lambda's argument.
InitRender ==
    /\ instance_count = 1
    /\ region \in Regions
    /\ docker_token_secret_user_managed \in BOOLEAN
    /\ revision = "package"
    /\ name = "app"
    /\ docker_token_secret_name \in SecretNames
    /\ ssh_pub_keys \in KeySets
    /\ generate_ssh_key = FALSE
    /\ network_ip = "10.0.0.2"
    /\ network_args = <<>>
    /\ dpc = "render"
    /\ pc = "NotEntered"
    /\ initial_instance_private_ip \in AddressInputs
    /\ ClusterStart
    /\ secretExists = FALSE
    /\ secretLatest = "none"

NextRender ==
    \/ RenderManagerScript
    \/ RenderWorkerScript

SpecRender == InitRender /\ [][NextRender]_vars

\* ------------------------------------------------ historical revisions

HistRevisions == {"swarm", "main"}

\* The model's count of probes and sleeps, which stops at HistProbeCap.
Counted(n) == IF n < HistProbeCap THEN n + 1 ELSE n

\* initial_instance = gcp.compute.Instance(f"{name}-swarm-node-0",
\* zone=f"{region}-a", ...).  src/swarm.py goes on to its wait loop,
\* src/__main__.py (lines 71-85) directly to the template.
HistCreateManager ==
    /\ revision \in HistRevisions
    /\ pc = "ManagerProvisioning"
    /\ LET req == Request("Manager", 0, ManagerZone(region)) IN
       \/ /\ requests' = Append(requests, req)
          /\ created' = created \cup {req}
          /\ pc' = IF revision = "swarm" THEN "AwaitingManagerReady"
                   ELSE "TemplateProvisioning"
          /\ initial_instance_private_ip' = network_ip
       \/ /\ Abort(req)
          /\ UNCHANGED initial_instance_private_ip
    /\ UNCHANGED <<cfgVars, deployVars, manager_script, template_script,
                   retry, probes, sleeps, readyConfirmed, swarm_nodes, i,
                   mgrVars, secretVars, wkVars>>

HistCheckManagerRunningWrong ==
    /\ revision = "swarm"
    /\ pc = "AwaitingManagerReady"
    /\ probes' = Counted(probes)
    /\ \E up \in BOOLEAN :
          /\ readyConfirmed' = (readyConfirmed \/ up)
          /\ pc' = IF up \/ probes' >= MaxAttempts
                   THEN "TemplateProvisioning" ELSE "Sleeping"
    /\ UNCHANGED <<cfgVars, deployVars, renderVars, retry, sleeps, requests,
                   created, swarm_nodes, i, mgrVars, secretVars, wkVars>>
\* `while not self._check_manager_running():` of src/swarm.py: the only
\* way out of the loop is a probe that returns True.
HistCheckManagerRunning ==
    /\ revision = "swarm"
    /\ pc = "AwaitingManagerReady"
    /\ probes' = Counted(probes)
    /\ \E up \in BOOLEAN :
          /\ readyConfirmed' = (readyConfirmed \/ up)
          /\ pc' = IF up THEN "TemplateProvisioning" ELSE "Sleeping"
    /\ UNCHANGED <<cfgVars, deployVars, renderVars, retry, sleeps, requests,
                   created, swarm_nodes, i, mgrVars, secretVars, wkVars>>

\* Loop body of src/swarm.py: pulumi.log.debug(...); time.sleep(10)
HistSleep ==
    /\ revision = "swarm"
    /\ pc = "Sleeping"
    /\ sleeps' = Counted(sleeps)
    /\ pc' = "AwaitingManagerReady"
    /\ UNCHANGED <<cfgVars, deployVars, renderVars, retry, probes,
                   readyConfirmed, requests, created, swarm_nodes, i,
                   mgrVars, secretVars, wkVars>>

\* instance_template = gcp.compute.InstanceTemplate(...);
\* self.swarm_nodes = [initial_instance]   (src/__main__.py lines 86-101)
HistCreateTemplate ==
    /\ revision \in HistRevisions
    /\ pc = "TemplateProvisioning"
    /\ LET req == Request("Template", 0, <<region>>) IN
       \/ /\ requests' = Append(requests, req)
          /\ created' = created \cup {req}
          /\ swarm_nodes' = <<0>>
          /\ i' = 1
          /\ pc' = "WorkersProvisioning"
       \/ /\ Abort(req)
          /\ UNCHANGED <<swarm_nodes, i>>
    /\ UNCHANGED <<cfgVars, deployVars, renderVars, retry, probes, sleeps,
                   readyConfirmed, mgrVars, secretVars, wkVars>>

\* One iteration of `for i in range(1, nodes)`, with
\* zone=f"{region}-{zones[i]}": zones[i] raises IndexError for i >= 3,
\* before any request is made.   (src/__main__.py lines 103-108)
HistCreateWorker ==
    /\ revision \in HistRevisions
    /\ pc = "WorkersProvisioning"
    /\ i < instance_count
    /\ IF ZoneAt(i) = "IndexError"
       THEN /\ raised' = "IndexError"
            /\ pc' = "Failed"
            /\ UNCHANGED <<requests, created, swarm_nodes, i>>
       ELSE /\ UNCHANGED raised
            /\ LET req == Request("Worker", i, ZoneName(region, ZoneAt(i))) IN
               \/ /\ requests' = Append(requests, req)
                  /\ created' = created \cup {req}
                  /\ swarm_nodes' = Append(swarm_nodes, i)
                  /\ i' = i + 1
                  /\ UNCHANGED pc
               \/ /\ Abort(req)
                  /\ UNCHANGED <<swarm_nodes, i>>
    /\ UNCHANGED <<cfgVars, network_args, dpc, exports, renderVars, retry,
                   probes, sleeps, readyConfirmed, mgrVars, secretVars,
                   wkVars>>

\* range(1, nodes) exhausted: __init__ returns.
HistFinish ==
    /\ revision \in HistRevisions
    /\ pc = "WorkersProvisioning"
    /\ i >= instance_count
    /\ pc' = "Complete"
    /\ UNCHANGED <<cfgVars, deployVars, renderVars, retry, probes, sleeps,
                   readyConfirmed, requests, created, swarm_nodes, i,
                   mgrVars, secretVars, wkVars>>

\* State on entry of SwarmCluster.__init__ of a historical revision
\* (`nodes` is instance_count).
InitHist ==
    /\ instance_count \in 1 .. MaxCount
    /\ region \in Regions
    /\ docker_token_secret_user_managed = FALSE
    /\ revision \in HistRevisions
    /\ name = "app"
    /\ docker_token_secret_name = "swarm-token"
    /\ ssh_pub_keys = ("alice" :> "ssh-rsa A")
    /\ generate_ssh_key = FALSE
    /\ network_ip = "10.0.0.2"
    /\ network_args = <<CurrentArgs>>
    /\ dpc = "cluster"
    /\ pc = "ManagerProvisioning"
    /\ initial_instance_private_ip = NoneValue
    /\ ClusterStart
    /\ secretExists = TRUE
    /\ secretLatest = "none"

NextHist ==
    \/ HistCreateManager
    \/ HistCheckManagerRunning
    \/ HistSleep
    \/ HistCreateTemplate
    \/ HistCreateWorker
    \/ HistFinish

SpecHist == InitHist /\ [][NextHist]_vars

\* ----------------------------------------------------- derived quantities

RequestsOf(kind) == SelectSeq(requests, LAMBDA q : q.kind = kind)

TemplateRequested == Len(RequestsOf("Template")) > 0

\* The readiness loop has been left: control is at, or past, the template.
LoopLeft == pc = "TemplateProvisioning" \/ TemplateRequested

InLoop == pc \in {"AwaitingManagerReady", "Sleeping"}

\* ----------------------------------------------------------------- claims

\* C1: the Template creation request (and every Worker creation request) is
\* issued only after some readiness probe of the manager returned true.
C1_TemplateOnlyAfterReady ==
    \A k \in 1 .. Len(requests) :
        requests[k].kind \in {"Template", "Worker"} => readyConfirmed

\* C2: when all 30 readiness probes have failed the run ends in Failed; it
\* does not build the node list and does not reach Complete.
C2_ExhaustedEndsFailed ==
    (probes = MaxAttempts /\ ~readyConfirmed /\ ~InLoop)
        => (pc = "Failed" /\ ~TemplateRequested /\ swarm_nodes = <<>>)

\* C3: the Manager creation request is issued before the first readiness
\* probe, and the Template creation request before every Worker creation
\* request.
C3_CreationOrder ==
    /\ probes > 0 =>
          /\ Len(requests) > 0
          /\ requests[1].kind = "Manager"
    /\ \A k \in 1 .. Len(requests) :
          requests[k].kind = "Worker" =>
              \E j \in 1 .. (k - 1) : requests[j].kind = "Template"

C3_Witness ==
    /\ probes > 0
    /\ Len(RequestsOf("Worker")) >= 2

\* C4: a completed run has issued exactly instance_count - 1 Worker creation
\* requests, worker k in zone region-[a,b,c][k mod 3], the manager in
\* region-a, and its node list has instance_count entries with the manager
\* first.
C4_FanOut ==
    pc = "Complete" =>
        LET W == RequestsOf("Worker")
            M == RequestsOf("Manager") IN
        /\ Len(W) = instance_count - 1
        /\ \A k \in 1 .. Len(W) :
              /\ W[k].index = k
              /\ W[k].zone = <<region, "-", <<"a", "b", "c">>[(k % 3) + 1]>>
        /\ Len(M) = 1
        /\ M[1].zone = <<region, "-", "a">>
        /\ Len(swarm_nodes) = instance_count
        /\ swarm_nodes[1] = 0
        /\ \A k \in 1 .. Len(W) : swarm_nodes[k + 1] = k

C4_Witness ==
    /\ pc = "Complete"
    /\ instance_count >= 4

C6_FirstSuccess ==
    readyConfirmed =>
        /\ probes \in 1 .. 30
        /\ sleeps = probes - 1
        /\ retry = probes - 1
        /\ ~InLoop
        /\ LoopLeft

C6_Witness ==
    /\ readyConfirmed
    /\ probes = 1
    /\ sleeps = 0
    /\ TemplateRequested

\* C7: a creation request that fails is the last request of the run: it is
\* not issued again, nothing is requested after it, the run is Failed, and
\* everything requested before it stays created.
C7_FailureAborts ==
    /\ \A j, k \in 1 .. Len(requests) : j # k => requests[j] # requests[k]
    /\ \A k \in 1 .. Len(requests) :
          requests[k] \notin created =>
              /\ k = Len(requests)
              /\ pc = "Failed"
    /\ \A k \in 1 .. (Len(requests) - 1) : requests[k] \in created
    /\ pc = "Failed" => requests[Len(requests)] \notin created
    /\ created \subseteq {requests[k] : k \in 1 .. Len(requests)}

C7_Witness ==
    /\ pc = "Failed"
    /\ Len(requests) = 4
    /\ requests[4].kind = "Worker"
    /\ requests[4].index = 2
    /\ instance_count > 3
    /\ Cardinality(created) = 3

\* C8: no worker reads the join token before the manager's script has
\* written it: every worker that has read got the token of this run.
C8_WorkersReadPublishedToken ==
    \A w \in WorkerIds :
        wk[w] = "done" => (secretWrites # <<>> /\ wkToken[w] = "token")

C10_OneTemplate ==
    /\ Len(RequestsOf("Template")) <= 1
    /\ pc = "Complete" => Len(RequestsOf("Template")) = 1

C10_Witness ==
    /\ pc = "Complete"
    /\ instance_count = 1
    /\ Len(RequestsOf("Template")) = 1
    /\ Len(RequestsOf("Worker")) = 0

\* C11: rendering the Worker script with an absent (None or empty) manager
\* private address fails: no Worker script is produced whose join target
\* lacks the manager's address.
C11_AbsentAddressRejected ==
    template_script # <<>> =>
        /\ initial_instance_private_ip \notin {"", NoneValue}
        /\ template_script[1].join[1] \notin {"", "None"}

\* The orchestration has ended, normally or by an exception.
Terminated == pc \in {"Complete", "Failed"}

\* A step that makes no probe and issues no request.
NothingMore == requests' = requests /\ probes' = probes /\ pc' = pc

\* C12: every run of the orchestration eventually reaches Complete or
\* Failed, whatever the probes return, and from then on makes no further
\* probe and issues no further creation request.
C12_Terminates ==
    /\ <>Terminated
    /\ [][Terminated => NothingMore]_vars

C12_Witness ==
    /\ pc = "Complete"
    /\ ~readyConfirmed
    /\ sleeps = 30
    /\ instance_count = 2

\* C13: the Worker script of the Template reads the token from the latest
\* version of the secret the Manager script of the same run publishes to
\* (docker_token_secret_name), and joins at port 2377 of the private address
\* of the Manager instance created in this run.
C13_WorkerScriptTargets ==
    template_script # <<>> =>
        /\ manager_script # <<>>
        /\ manager_script[1].publish = docker_token_secret_name
        /\ template_script[1].access = <<"latest", manager_script[1].publish>>
        /\ template_script[1].join = <<network_ip, 2377>>
        /\ \E q \in created : q.kind = "Manager"

C13_Witness ==
    /\ TemplateRequested
    /\ template_script # <<>>
    /\ docker_token_secret_name = "join-token"
    /\ network_ip = "10.0.1.7"
    /\ pc = "Complete"

\* C14 (as stated): every execution of the Manager startup script writes the
\* join token to the secret exactly once.
C14_WrittenExactlyOnce ==
    mgr = "done" => Len(secretWrites) = 1

\* C14 (amended): the Manager startup script writes the join token to the
\* secret at most once, by one command (create or add, never both): once
\* when its publishing line succeeds, not at all when it fails; every write
\* of the secret is the manager script's.
C14_SingleWriter ==
    /\ Len(secretWrites) <= 1
    /\ \A k \in 1 .. Len(secretWrites) :
          /\ secretWrites[k].by = "manager"
          /\ secretWrites[k].cmd \in {"create", "add"}
    /\ mgr # "done" => secretWrites = <<>>
    /\ mgr = "done" => (Len(secretWrites) = 1 <=> publish_rc = 0)
    /\ secretLatest = "token" <=> Len(secretWrites) = 1

C14_Witness ==
    /\ mgr = "done"
    /\ publish_rc = 0
    /\ Len(secretWrites) = 1
    /\ pc = "Complete"
    /\ \E w \in WorkerIds : wk[w] = "done"

\* s is a prefix of t.
IsPrefix(s, t) == Len(t) >= Len(s) /\ SubSeq(t, 1, Len(s)) = s

\* C15: once swarm_nodes exists it only grows by appending: its previous
\* content is a prefix of its next content, element 0 is the Manager node and
\* element k >= 1 is the Worker created in iteration k of the fan-out.
C15_AppendOnly ==
    /\ [](swarm_nodes # <<>> =>
            /\ swarm_nodes[1] = 0
            /\ \E q \in created : q.kind = "Manager" /\ q.index = 0
            /\ \A k \in 1 .. (Len(swarm_nodes) - 1) :
                  /\ swarm_nodes[k + 1] = k
                  /\ \E q \in created : q.kind = "Worker" /\ q.index = k)
    /\ [][swarm_nodes # <<>> => IsPrefix(swarm_nodes, swarm_nodes')]_vars

C15_Witness ==
    /\ Len(swarm_nodes) = 3
    /\ pc = "WorkersProvisioning"

\* C16 (as stated): after SwarmNetwork was given the arguments, name, region,
\* instance_count, the secret name and the ssh_pub_keys mapping keep the
\* value they had then.
C16_ConfigUnchanged ==
    network_args # <<>> => network_args[1] = CurrentArgs

\* C16 (amended): name, region, instance_count and the secret name keep the
\* value SwarmNetwork was given; ssh_pub_keys keeps it too, except that with
\* generate_ssh_key the entry 'deployer' is set to the generated key before
\* SwarmCluster is called; every other entry is unchanged.
C16_ConfigUnchangedButDeployerKey ==
    network_args # <<>> =>
        LET a == network_args[1] IN
        /\ a.name = name
        /\ a.region = region
        /\ a.instance_count = instance_count
        /\ a.docker_token_secret_name = docker_token_secret_name
        /\ DOMAIN ssh_pub_keys \subseteq (DOMAIN a.ssh_pub_keys) \cup {"deployer"}
        /\ \A u \in (DOMAIN a.ssh_pub_keys) \ {"deployer"} :
              u \in DOMAIN ssh_pub_keys /\ ssh_pub_keys[u] = a.ssh_pub_keys[u]
        /\ (~generate_ssh_key \/ dpc = "keygen")
              => ssh_pub_keys = a.ssh_pub_keys
        /\ (generate_ssh_key /\ dpc # "keygen")
              => /\ "deployer" \in DOMAIN ssh_pub_keys
                 /\ ssh_pub_keys["deployer"] = DeployerKey

C16_Witness ==
    /\ dpc = "done"
    /\ generate_ssh_key
    /\ DOMAIN ssh_pub_keys = {"alice", "deployer"}
    /\ ssh_pub_keys["deployer"] = DeployerKey
    /\ network_args[1].ssh_pub_keys = ("alice" :> "ssh-rsa A")

C18_ZoneIndexInBounds ==
    /\ raised # "IndexError"
    /\ (pc = "WorkersProvisioning" /\ i < instance_count)
          => ZoneAt(i) # "IndexError"

\* C19: the nodes of one run are created under pairwise distinct names, the
\* node at index k of swarm_nodes is the one created as
\* "{name}-swarm-node-{k}", and the exported instance-k-name is that of node k.
C19_NodeNames ==
    /\ \A j, k \in 1 .. Len(requests) :
          j # k => requests[j].name # requests[k].name
    /\ \A k \in 1 .. Len(swarm_nodes) :
          \E q \in created :
             /\ q.kind = (IF k = 1 THEN "Manager" ELSE "Worker")
             /\ q.index = swarm_nodes[k]
             /\ q.name = <<name, "-swarm-node-", k - 1>>
    /\ dpc = "done" =>
          /\ DOMAIN exports = 0 .. (instance_count - 1)
          /\ \A k \in DOMAIN exports :
                exports[k] = <<name, "-swarm-node-", k>>

C19_Witness ==
    /\ dpc = "done"
    /\ instance_count >= 3
    /\ name = "shop"
    /\ DOMAIN exports = 0 .. (instance_count - 1)

====
